---- MODULE Spec2Model ----
(***************************************************************************)
(* Model of the LMSR pricing / quote engine of the Skepsis backend         *)
(* (src/src/common/services/s3-upload.service.ts, lines 127-699): the      *)
(* market state reader, the range-to-bucket mapper, the cost / payout /    *)
(* probability engine, the amount -> shares solver and the quote facade.   *)
(*                                                                         *)
(* bigint values are TLA+ integers.  JavaScript Numbers (IEEE doubles) are *)
(* modelled as decimal fixed-point values with FRAC units per 1.0, rounded *)
(* to nearest after every operation, plus the three special values NaN,    *)
(* +Infinity and -Infinity, which the code reaches through x/0, ln(0) and  *)
(* Infinity - Infinity.                                                    *)
(***************************************************************************)
EXTENDS Integers, Sequences, FiniteSets, TLC

(***************************************************************************)
(* Bounds of the model.                                                    *)
(***************************************************************************)
MaxActive == 2      \* active_buckets is <<0, ..., k-1>> for k <= MaxActive
HeldShares == 64    \* share count a table entry of the ledger may hold
SmallAmount == 3    \* a small spend amount / share count of a request
BigAmount == 100    \* a large spend amount / share count of a request
Alpha == 128        \* liquidity parameter of a market object that sets it
BucketWidth == 10   \* bucket width of a market object that sets it
SmallCap == 4       \* a small max_shares_per_bucket of a market object
BigCap == 96        \* a large max_shares_per_bucket of a market object
MaxFailedReads == 1 \* state-source reads that may fail during one call
MaxTrades == 2      \* longest trade list passed to calculateRealizedPnL
MaxPositions == 2   \* longest list of open positions passed to calculateTotalPnL
ProbeShares == 12   \* share counts 1 .. ProbeShares are compared for their cost
MaxActivations == 2 \* activateCode calls that may be in flight at the same time
MaxTradesDuringRead == 2  \* trades that may reach the ledger during one state read
MaxSponsorCalls == 2      \* sponsorTransaction calls that may be in flight at the same time
MaxSponsorships == 3      \* sponsorships recorded before the last calls start
DailyLimitPerUser == 2    \* configured DAILY_LIMIT_PER_USER, in units of 100,000,000 MIST
GlobalDailyBudget == 3    \* configured GLOBAL_DAILY_BUDGET, in units of 100,000,000 MIST

(***************************************************************************)
(* JavaScript Number                                                       *)
(***************************************************************************)
FRAC == 1000        \* fixed-point units per 1.0

Fin(v) == [k |-> "fin", v |-> v]
NaN == [k |-> "nan", v |-> 0]
PosInf == [k |-> "inf", v |-> 1]
NegInf == [k |-> "inf", v |-> -1]

IsFinite(x) == x.k = "fin"

Abs(n) == IF n < 0 THEN -n ELSE n
Sign(n) == IF n < 0 THEN -1 ELSE IF n > 0 THEN 1 ELSE 0

\* nearest integer to a / b for b > 0 (ties upward)
RoundDiv(a, b) == (a \div b) + (IF 2 * (a % b) >= b THEN 1 ELSE 0)

\* bigint division: the quotient truncated toward zero (b # 0)
BigIntDiv(a, b) ==
    IF (a >= 0) = (b > 0) THEN Abs(a) \div Abs(b) ELSE -(Abs(a) \div Abs(b))

\* Number(b) for a bigint b
Num(n) == Fin(n * FRAC)

FAdd(a, b) ==
    IF a.k = "nan" \/ b.k = "nan" THEN NaN
    ELSE IF a.k = "inf" /\ b.k = "inf" THEN (IF a.v = b.v THEN a ELSE NaN)
    ELSE IF a.k = "inf" THEN a
    ELSE IF b.k = "inf" THEN b
    ELSE Fin(a.v + b.v)

FNeg(a) == IF a.k = "nan" THEN NaN ELSE [k |-> a.k, v |-> -a.v]

FSub(a, b) == FAdd(a, FNeg(b))

FMul(a, b) ==
    IF a.k = "nan" \/ b.k = "nan" THEN NaN
    ELSE IF a.k = "inf" \/ b.k = "inf"
         THEN (IF a.v = 0 \/ b.v = 0 THEN NaN
               ELSE IF Sign(a.v) = Sign(b.v) THEN PosInf ELSE NegInf)
    ELSE Fin((a.v \div FRAC) * b.v + RoundDiv((a.v % FRAC) * b.v, FRAC))

FDiv(a, b) ==
    IF a.k = "nan" \/ b.k = "nan" THEN NaN
    ELSE IF a.k = "inf"
         THEN (IF b.k = "inf" THEN NaN
               ELSE IF (a.v > 0) = (b.v >= 0) THEN PosInf ELSE NegInf)
    ELSE IF b.k = "inf" THEN Fin(0)
    ELSE IF b.v = 0
         THEN (IF a.v = 0 THEN NaN ELSE IF a.v > 0 THEN PosInf ELSE NegInf)
    ELSE IF a.v % FRAC = 0 /\ b.v % FRAC = 0
         THEN (IF b.v > 0 THEN Fin(RoundDiv(a.v, b.v \div FRAC))
               ELSE Fin(RoundDiv(-a.v, -(b.v \div FRAC))))
    ELSE IF b.v > 0 THEN Fin(RoundDiv(a.v * FRAC, b.v))
    ELSE Fin(RoundDiv(-(a.v * FRAC), -b.v))

\* a < b, a <= b, a > b, a >= b on Numbers: false when either is NaN
FLt(a, b) ==
    /\ a.k # "nan" /\ b.k # "nan"
    /\ IF a.k = "inf" THEN a.v < 0 /\ ~(b.k = "inf" /\ b.v < 0)
       ELSE IF b.k = "inf" THEN b.v > 0
       ELSE a.v < b.v
FEq(a, b) == a.k # "nan" /\ b.k # "nan" /\ a = b
FLe(a, b) == FLt(a, b) \/ FEq(a, b)
FGt(a, b) == FLt(b, a)
FGe(a, b) == FLe(b, a)

\* Math.max(a, b)
MathMax(a, b) ==
    IF a.k = "nan" \/ b.k = "nan" THEN NaN
    ELSE IF FGe(a, b) THEN a ELSE b

\* Math.floor(x)
MathFloor(x) == IF IsFinite(x) THEN Fin((x.v \div FRAC) * FRAC) ELSE x

\* Math.round(x): the nearest integer, ties upward
MathRound(x) == IF IsFinite(x) THEN Fin(RoundDiv(x.v, FRAC) * FRAC) ELSE x

\* BigInt(x) for a Number x: a RangeError unless x is a finite integer
BigIntOf(x) ==
    IF IsFinite(x) /\ x.v % FRAC = 0
    THEN [ok |-> TRUE, v |-> x.v \div FRAC]
    ELSE [ok |-> FALSE, v |-> 0]

\* the Taylor series of exp at x >= 0: term is x^(n-1)/(n-1)!
RECURSIVE ExpSeries(_, _, _, _)
ExpSeries(x, n, term, acc) ==
    IF term = 0 THEN acc
    ELSE ExpSeries(x, n + 1, RoundDiv(term * x, n * FRAC), acc + term)

ExpFix(x) ==
    IF x >= 0 THEN ExpSeries(x, 1, FRAC, 0)
    ELSE RoundDiv(FRAC * FRAC, ExpSeries(-x, 1, FRAC, 0))

\* Math.exp(x)
MathExp(x) ==
    IF x.k = "nan" THEN NaN
    ELSE IF x.k = "inf" THEN (IF x.v > 0 THEN PosInf ELSE Fin(0))
    ELSE Fin(ExpFix(x.v))

\* 2 * atanh(z) = 2 * (z + z^3/3 + z^5/5 + ...), pw is z^n
RECURSIVE AtanhSeries(_, _, _, _)
AtanhSeries(z2, n, pw, acc) ==
    IF pw = 0 THEN acc
    ELSE AtanhSeries(z2, n + 2, RoundDiv(pw * z2, FRAC), acc + RoundDiv(2 * pw, n))

\* ln of a fixed-point y in [FRAC, 2 * FRAC): ln y = 2 atanh((y - 1)/(y + 1))
LnUnit(y) ==
    LET z == RoundDiv((y - FRAC) * FRAC, y + FRAC)
    IN  AtanhSeries(RoundDiv(z * z, FRAC), 1, z, 0)

Ln2 == LnUnit(2 * FRAC)

\* ln x = k * ln 2 + ln(x / 2^k) with x / 2^k in [1, 2)
RECURSIVE LnFix(_)
LnFix(x) ==
    IF x >= 2 * FRAC THEN Ln2 + LnFix(RoundDiv(x, 2))
    ELSE IF x < FRAC THEN -LnFix(RoundDiv(FRAC * FRAC, x))
    ELSE LnUnit(x)

\* Math.log(x)
MathLog(x) ==
    IF x.k = "nan" THEN NaN
    ELSE IF x.k = "inf" THEN (IF x.v > 0 THEN PosInf ELSE NaN)
    ELSE IF x.v < 0 THEN NaN
    ELSE IF x.v = 0 THEN NegInf
    ELSE Fin(LnFix(x.v))

(***************************************************************************)
(* LMSR calculations on a MarketState record                               *)
(*   [distribution, activeBuckets, alpha, balance, minValue, maxValue,     *)
(*    bucketWidth, bucketCount, maxSharesPerBucket]                        *)
(* distribution is a function from the bucket indices that have an entry   *)
(* to share counts, activeBuckets a sequence of bucket indices.            *)
(***************************************************************************)

\* mapRangeToBuckets: bigint division of the range ends by the bucket width
mapRangeToBuckets(rangeMin, rangeMax, bucketWidth, minValue) ==
    [start |-> BigIntDiv(rangeMin, bucketWidth),
     end   |-> BigIntDiv(rangeMax - 1, bucketWidth)]

\* Number(state.distribution.get(bucketIdx) || 0n)
SharesOf(state, bucketIdx) ==
    IF bucketIdx \in DOMAIN state.distribution
    THEN state.distribution[bucketIdx] ELSE 0

SeqToSet(s) == {s[n] : n \in DOMAIN s}

\* the Number sum of term[b] over the buckets of a finite set
RECURSIVE SumOver(_, _)
SumOver(buckets, term) ==
    IF buckets = {} THEN Fin(0)
    ELSE LET b == CHOOSE c \in buckets : TRUE
         IN  FAdd(term[b], SumOver(buckets \ {b}, term))

\* the Number sum of term[b] over the entries of a sequence of buckets
RECURSIVE SumSeq(_, _)
SumSeq(s, term) ==
    IF s = <<>> THEN Fin(0)
    ELSE FAdd(term[Head(s)], SumSeq(Tail(s), term))

InRange(bucketIdx, span) == bucketIdx >= span.start /\ bucketIdx <= span.end

\* calculateProbability: a Number, the percentage of the range
calculateProbability(state, rangeMin, rangeMax) ==
    LET span == mapRangeToBuckets(rangeMin, rangeMax, state.bucketWidth, state.minValue)
        alpha == Num(state.alpha)
        active == SeqToSet(state.activeBuckets)
        expTerm == [b \in active |-> MathExp(FDiv(Num(SharesOf(state, b)), alpha))]
        rangeTerm == [b \in active |-> IF InRange(b, span) THEN expTerm[b] ELSE Fin(0)]
        totalSum == SumSeq(state.activeBuckets, expTerm)
        rangeSum == SumSeq(state.activeBuckets, rangeTerm)
    IN  IF FGt(totalSum, Fin(0))
        THEN FMul(FDiv(rangeSum, totalSum), Num(100))
        ELSE Fin(0)

\* a faulty cost: the logarithms are subtracted the other way round, as the
\* payout does
calculateCostForSharesReversed(state, rangeMin, rangeMax, shares) ==
    LET span == mapRangeToBuckets(rangeMin, rangeMax, state.bucketWidth, state.minValue)
        alpha == Num(state.alpha)
        sharesToAdd == shares
        initialTerm == [b \in SeqToSet(state.activeBuckets) |->
                          MathExp(FDiv(Num(SharesOf(state, b)), alpha))]
        initialSum == SumSeq(state.activeBuckets, initialTerm)
        affectedBuckets == SeqToSet(state.activeBuckets) \cup (span.start .. span.end)
        newQi(b) == IF InRange(b, span) THEN SharesOf(state, b) + sharesToAdd
                    ELSE SharesOf(state, b)
        finalTerm == [b \in affectedBuckets |-> MathExp(FDiv(Num(newQi(b)), alpha))]
        finalSum == SumOver(affectedBuckets, finalTerm)
        cost == FMul(alpha, FSub(MathLog(initialSum), MathLog(finalSum)))
    IN  BigIntOf(MathRound(cost))

\* a faulty cost: the share count is divided among the buckets of the range
calculateCostForSharesDivided(state, rangeMin, rangeMax, shares) ==
    LET span == mapRangeToBuckets(rangeMin, rangeMax, state.bucketWidth, state.minValue)
        alpha == Num(state.alpha)
        width == span.end - span.start + 1
        sharesToAdd == IF width > 0 THEN shares \div width ELSE shares
        initialTerm == [b \in SeqToSet(state.activeBuckets) |->
                          MathExp(FDiv(Num(SharesOf(state, b)), alpha))]
        initialSum == SumSeq(state.activeBuckets, initialTerm)
        affectedBuckets == SeqToSet(state.activeBuckets) \cup (span.start .. span.end)
        newQi(b) == IF InRange(b, span) THEN SharesOf(state, b) + sharesToAdd
                    ELSE SharesOf(state, b)
        finalTerm == [b \in affectedBuckets |-> MathExp(FDiv(Num(newQi(b)), alpha))]
        finalSum == SumOver(affectedBuckets, finalTerm)
        cost == FMul(alpha, FSub(MathLog(finalSum), MathLog(initialSum)))
    IN  BigIntOf(MathRound(cost))

\* calculateCostForShares: [ok |-> TRUE, v |-> cost], or ok = FALSE when
\* BigInt(Math.round(cost)) throws
calculateCostForShares(state, rangeMin, rangeMax, shares) ==
    LET span == mapRangeToBuckets(rangeMin, rangeMax, state.bucketWidth, state.minValue)
        alpha == Num(state.alpha)
        sharesToAdd == shares
        initialTerm == [b \in SeqToSet(state.activeBuckets) |->
                          MathExp(FDiv(Num(SharesOf(state, b)), alpha))]
        initialSum == SumSeq(state.activeBuckets, initialTerm)
        affectedBuckets == SeqToSet(state.activeBuckets) \cup (span.start .. span.end)
        newQi(b) == IF InRange(b, span) THEN SharesOf(state, b) + sharesToAdd
                    ELSE SharesOf(state, b)
        finalTerm == [b \in affectedBuckets |-> MathExp(FDiv(Num(newQi(b)), alpha))]
        finalSum == SumOver(affectedBuckets, finalTerm)
        cost == FMul(alpha, FSub(MathLog(finalSum), MathLog(initialSum)))
    IN  BigIntOf(MathRound(cost))

\* calculatePayoutForShares: [ok |-> TRUE, v |-> payout], or ok = FALSE when
\* BigInt(Math.round(payout)) throws
calculatePayoutForShares(state, rangeMin, rangeMax, shares) ==
    LET span == mapRangeToBuckets(rangeMin, rangeMax, state.bucketWidth, state.minValue)
        alpha == Num(state.alpha)
        sharesToRemove == shares
        active == SeqToSet(state.activeBuckets)
        initialTerm == [b \in active |-> MathExp(FDiv(Num(SharesOf(state, b)), alpha))]
        initialSum == SumSeq(state.activeBuckets, initialTerm)
        qiLeft(b) == IF SharesOf(state, b) - sharesToRemove > 0
                     THEN SharesOf(state, b) - sharesToRemove ELSE 0
        newQi(b) == IF InRange(b, span) THEN qiLeft(b) ELSE SharesOf(state, b)
        finalTerm == [b \in active |->
                        IF newQi(b) > 0 THEN MathExp(FDiv(Num(newQi(b)), alpha))
                        ELSE Fin(0)]
        finalSum == SumSeq(state.activeBuckets, finalTerm)
        payout == FMul(alpha, FSub(MathLog(initialSum), MathLog(finalSum)))
    IN  BigIntOf(MathRound(payout))

(***************************************************************************)
(* The state source (ledger) and one library call at a time                *)
(***************************************************************************)
VARIABLES
    ledger,         \* the market object held by the state source
    pc,             \* position of the running call
    req,            \* arguments of the running call
    reads,          \* state-source reads issued by the running call
    objectReads,    \* client.getObject reads issued by the running call
    failedReads,    \* reads of the running call that the state source failed
    positions,      \* calculateTotalPnL: the calculatePositionPnL calls in flight
    activeBuckets,  \* getMarketState: active_buckets read from the object
    distribution,   \* getMarketState: the Map filled by the per-bucket reads
    bucketPos,      \* getMarketState: position of the per-bucket loop
    state,          \* the MarketState returned by getMarketState
    low, high, bestShares, bestCost, i, delta,  \* calculateSharesForAmount
    evaluated,      \* share counts passed to calculateCostForShares so far
    result          \* what the call returned or threw

\* what lies outside a library call on a market read from the ledger: the
\* market of a solver run on its own, and the collections and calls of the
\* backend services
VARIABLES
    view,           \* calculateSharesForAmount run on its own: what it sees of a market
    tablesSeen,     \* share tables the ledger held before its present one, since the call
    waitlistModel,  \* WaitlistService: the waitlist collection, by access code
    activations,    \* WaitlistService: the activateCode calls in flight
    sponsorshipModel,  \* EnokiService: the sponsorship collection of today
    sponsorCalls    \* EnokiService: the sponsorTransaction calls in flight

vars == <<ledger, pc, req, reads, objectReads, failedReads, positions,
          activeBuckets, distribution, bucketPos, state,
          low, high, bestShares, bestCost, i, delta, evaluated, result,
          view, tablesSeen, waitlistModel, activations, sponsorshipModel, sponsorCalls>>

waitlistVars == <<waitlistModel, activations>>
enokiVars == <<sponsorshipModel, sponsorCalls>>
serviceVars == <<waitlistVars, enokiVars>>
otherVars == <<view, tablesSeen, serviceVars>>

solverVars == <<low, high, bestShares, bestCost, i, delta, evaluated>>
readerVars == <<activeBuckets, distribution, bucketPos, state>>
ioVars == <<reads, objectReads, failedReads>>

MAX_ITERATIONS == 50        \* for (let i = 0; i < 50; i++)
REFINE_WINDOW == 10000      \* delta <= 10000n
REFINE_STEP == 100          \* delta += 100n
MICRO == 1000000            \* micro-units per USDC


EmptyMap == [b \in {} |-> 0]

\* the share tables over the buckets 0 .. k-1: each bucket has no entry, an
\* entry of 0 shares or an entry of HeldShares shares
Tables(k) ==
    UNION {[present -> {0, HeldShares}] : present \in SUBSET (0 .. k - 1)}

\* a market object: shape tells which part of it is missing; a field of 0
\* is a field the object does not set.  The values run from virtual_min to
\* virtual_max inclusive (bucketCount is (max - min) / width + 1), so the top
\* bucket MaxActive - 1 is the one that holds virtual_max
MarketObject(shape, k, t, a, cap, width) ==
    [shape |-> shape, active_buckets |-> [n \in 1 .. k |-> n - 1], table |-> t,
     liquidity_parameter |-> a, max_shares_per_bucket |-> cap,
     bucket_width |-> width, virtual_min |-> 0,
     virtual_max |-> BucketWidth * (MaxActive - 1), balance |-> 0]

Ledgers ==
    UNION {{MarketObject("ok", k, t, a, cap, BucketWidth) :
               t \in Tables(k), a \in {0, Alpha}, cap \in {0, SmallCap, BigCap}} :
           k \in 0 .. MaxActive}
    \cup {MarketObject("ok", 1, (0 :> HeldShares), Alpha, 0, 0)}
    \cup {MarketObject(shape, 0, EmptyMap, 0, 0, 0) :
             shape \in {"noContent", "noSparseDistribution", "noBucketsTable"}}

RangeMins == {-(BucketWidth + BucketWidth \div 2), 0, BucketWidth}
RangeMaxs == {0, BucketWidth, 2 * BucketWidth}
Amounts == {-1, 0, SmallAmount, BigAmount}
ShareCounts == {-1, 0, SmallAmount, HeldShares, BigAmount}
Slippages == {Fin(0), Fin(FRAC \div 20), Fin(FRAC)}

NoState ==
    [distribution |-> EmptyMap, activeBuckets |-> <<>>, alpha |-> 0, balance |-> 0,
     minValue |-> 0, maxValue |-> 0, bucketWidth |-> 0, bucketCount |-> 0,
     maxSharesPerBucket |-> 0]

NoRequest ==
    [op |-> "none", rangeMin |-> 0, rangeMax |-> 0, amount |-> 0,
     slippagePercent |-> Fin(0), costBasis |-> 0, trades |-> <<>>,
     openPositions |-> <<>>]

\* the Trade lists of calculateRealizedPnL: type and amount are the fields read
Trades == [type : {"buy", "sell"}, amount : {0, SmallAmount, BigAmount}]
TradeLists == UNION {[1 .. n -> Trades] : n \in 0 .. MaxTrades}

\* the open positions of calculatePositionPnL and calculateTotalPnL
CostBases == {0, SmallAmount, BigAmount}
OpenPositions ==
    {[rangeStart |-> 0, rangeEnd |-> BucketWidth,
      shares |-> SmallAmount, costBasis |-> 0],
     [rangeStart |-> BucketWidth, rangeEnd |-> 2 * BucketWidth,
      shares |-> HeldShares, costBasis |-> BigAmount]}
PositionLists == UNION {[1 .. n -> OpenPositions] : n \in 0 .. MaxPositions}
PortfolioTrades ==
    {<<>>, <<[type |-> "buy", amount |-> BigAmount],
             [type |-> "sell", amount |-> SmallAmount]>>}

NoPnL ==
    [rangeStart |-> 0, rangeEnd |-> 0, shares |-> 0, costBasis |-> 0,
     currentValue |-> 0, unrealizedPnL |-> 0, unrealizedPnLPercent |-> Fin(0),
     probability |-> Fin(0)]

NoResult ==
    [kind |-> "none", error |-> "", shares |-> 0, cost |-> 0, costUSDC |-> Fin(0),
     payout |-> 0, payoutUSDC |-> Fin(0), probability |-> Fin(0),
     pricePerShare |-> Fin(0), minSharesOut |-> 0, minUsdcOut |-> 0,
     pnl |-> NoPnL, positions |-> <<>>,
     totalBought |-> 0, totalSold |-> 0, realizedPnL |-> 0,
     realizedPnLPercent |-> Fin(0), unrealizedPnL |-> 0, totalPnL |-> 0,
     totalPnLPercent |-> Fin(0)]

Thrown(msg) == [NoResult EXCEPT !.kind = "error", !.error = msg]

\* the library call of the pricing specifications, with all its variables
pricingVars == <<ledger, pc, req, ioVars, positions, readerVars, solverVars, result>>

\* the activateCode calls that may run at the same time
ActivateCalls == 1 .. MaxActivations

\* the access codes of the waitlist entries that have one, the codes a
\* request may carry and the wallets it may name
AccessCodes == {"K9MX4P"}
RequestedCodes == {"K9MX4P", "k9mx4p", "ZZZZZZ"}
Wallets == {"0xa", "0xb"}

\* String.prototype.toUpperCase on the requested codes
toUpperCase(code) == IF code = "k9mx4p" THEN "K9MX4P" ELSE code

\* an approved waitlist entry: generateCodes gave it a code, no wallet yet
ApprovedEntry == [status |-> "approved", wallet_addresses |-> <<>>]

\* an activateCode call that has not started
NoActivation ==
    [pc |-> "idle", access_code |-> "", wallet_address |-> "",
     entry |-> ApprovedEntry, found |-> "", error |-> "", message |-> "",
     total_wallets |-> 0]

\* what calculateSharesForAmount sees of a market: the probability of the
\* range, the share cap and the cost of a share count
NoView ==
    [probability |-> Fin(0), maxSharesPerBucket |-> 0,
     curve |-> [base |-> 0, num |-> 0, den |-> 1, failAbove |-> 0]]

\* the sponsorTransaction calls that may run at the same time, the users
\* that ask for sponsorship and the computationCost of a transaction, in
\* units of 100,000,000 MIST
SponsorCalls == 1 .. MaxSponsorCalls
SponsoredUsers == {"0xa", "0xb"}
GasCosts == {1, 2}

\* a sponsorTransaction call that has not started
NoSponsorCall == [pc |-> "idle", userAddress |-> "", gasUsed |-> 0, error |-> ""]

\* the services before any request; no solver runs on its own, no trade has
\* reached the ledger
ServiceInit ==
    /\ view = NoView
    /\ tablesSeen = {}
    /\ waitlistModel = [code \in AccessCodes |-> ApprovedEntry]
    /\ activations = [c \in ActivateCalls |-> NoActivation]
    /\ sponsorshipModel = <<>>
    /\ sponsorCalls = [c \in SponsorCalls |-> NoSponsorCall]

Init ==
    /\ ledger \in Ledgers
    /\ pc = "idle"
    /\ req = NoRequest
    /\ reads = 0
    /\ objectReads = 0
    /\ failedReads = 0
    /\ positions = <<>>
    /\ activeBuckets = <<>>
    /\ distribution = EmptyMap
    /\ bucketPos = 0
    /\ state = NoState
    /\ low = 0 /\ high = 0 /\ bestShares = 0 /\ bestCost = 0 /\ i = 0 /\ delta = 0
    /\ evaluated = {}
    /\ result = NoResult
    /\ ServiceInit

\* a caller invokes getBuyQuote(client, marketId, rangeMin, rangeMax, amount,
\* slippagePercent): the first statement is the state read
CallGetBuyQuote ==
    /\ pc = "idle"
    /\ \E rmin \in RangeMins, rmax \in RangeMaxs, amount \in Amounts, slip \in Slippages :
          req' = [op |-> "buy", rangeMin |-> rmin, rangeMax |-> rmax,
                  amount |-> amount, slippagePercent |-> slip]
    /\ pc' = "getObject"
    /\ UNCHANGED <<otherVars, ledger, ioVars, positions, readerVars, solverVars, result>>

\* a caller invokes getSellQuote(client, marketId, rangeMin, rangeMax, shares,
\* slippage): the first statement is the state read
CallGetSellQuote ==
    /\ pc = "idle"
    /\ \E rmin \in RangeMins, rmax \in RangeMaxs, shares \in ShareCounts, slip \in Slippages :
          req' = [op |-> "sell", rangeMin |-> rmin, rangeMax |-> rmax,
                  amount |-> shares, slippagePercent |-> slip]
    /\ pc' = "getObject"
    /\ UNCHANGED <<otherVars, ledger, ioVars, positions, readerVars, solverVars, result>>

\* the outcomes of one read of the state source: it answers (TRUE) or the
\* request fails with an error of the client (FALSE); at most MaxFailedReads
\* reads fail during one call
ReadAnswers(failed) == IF failed < MaxFailedReads THEN {TRUE, FALSE} ELSE {TRUE}

\* the error getMarketState throws on the shape of the object it read, "" if
\* the object has content, a sparse distribution and a buckets table
ShapeError(obj) ==
    IF obj.shape = "noContent" THEN "Invalid market object"
    ELSE IF obj.shape = "noSparseDistribution"
         THEN "Sparse distribution not found in market state"
    ELSE IF obj.shape = "noBucketsTable" THEN "Buckets table ID not found"
    ELSE ""

\* the Map after the per-bucket read of bucketIdx: distribution.set when the
\* read answered with an entry; a bucket without an entry and a read that
\* threw are both caught and skipped
BucketRead(obj, dist, bucketIdx, answered) ==
    IF answered /\ bucketIdx \in DOMAIN obj.table
    THEN [b \in DOMAIN dist \cup {bucketIdx} |->
            IF b = bucketIdx THEN obj.table[b] ELSE dist[b]]
    ELSE dist

\* the MarketState getMarketState returns: bucketCount, the alpha fallback to
\* 0 and the maxSharesPerBucket fallback to alpha
MarketStateOf(obj, active, dist) ==
    [distribution |-> dist,
     activeBuckets |-> active,
     alpha |-> obj.liquidity_parameter,
     balance |-> obj.balance,
     minValue |-> obj.virtual_min,
     maxValue |-> obj.virtual_max,
     bucketWidth |-> obj.bucket_width,
     bucketCount |-> BigIntDiv(obj.virtual_max - obj.virtual_min, obj.bucket_width) + 1,
     maxSharesPerBucket |->
         IF obj.max_shares_per_bucket > 0
         THEN obj.max_shares_per_bucket
         ELSE obj.liquidity_parameter]

\* a faulty reader: the market object is served from a cache, the state
\* source is not asked
GetObjectCached ==
    /\ pc = "getObject"
    /\ LET error == ShapeError(ledger)
       IN  IF error # ""
           THEN /\ result' = Thrown(error)
                /\ pc' = "done"
                /\ UNCHANGED <<activeBuckets, bucketPos>>
           ELSE /\ activeBuckets' = ledger.active_buckets
                /\ bucketPos' = 1
                /\ pc' = "getDynamicField"
                /\ UNCHANGED result
    /\ UNCHANGED <<otherVars, ledger, req, ioVars, positions, distribution, state, solverVars>>

\* getMarketState up to the per-bucket loop: client.getObject, whose failure
\* is not caught, and the shape checks of the returned object
GetObject ==
    /\ pc = "getObject"
    /\ reads' = reads + 1
    /\ objectReads' = objectReads + 1
    /\ \E answered \in ReadAnswers(failedReads) :
          /\ failedReads' = IF answered THEN failedReads ELSE failedReads + 1
          /\ LET error == IF answered THEN ShapeError(ledger) ELSE "RpcError"
             IN  IF error # ""
                 THEN /\ result' = Thrown(error)
                      /\ pc' = "done"
                      /\ UNCHANGED <<activeBuckets, bucketPos>>
                 ELSE /\ activeBuckets' = ledger.active_buckets
                      /\ bucketPos' = 1
                      /\ pc' = "getDynamicField"
                      /\ UNCHANGED result
    /\ UNCHANGED <<otherVars, ledger, req, positions, distribution, state, solverVars>>

\* one iteration of the per-bucket loop: client.getDynamicFieldObject inside
\* try / catch
GetDynamicField ==
    /\ pc = "getDynamicField"
    /\ bucketPos <= Len(activeBuckets)
    /\ reads' = reads + 1
    /\ \E answered \in ReadAnswers(failedReads) :
          /\ failedReads' = IF answered THEN failedReads ELSE failedReads + 1
          /\ distribution' =
                BucketRead(ledger, distribution, activeBuckets[bucketPos], answered)
    /\ bucketPos' = bucketPos + 1
    /\ UNCHANGED <<otherVars, ledger, pc, req, objectReads, positions, activeBuckets, state,
                   solverVars, result>>

\* getMarketState after the loop: bucketCount (a bigint division that throws
\* on a zero bucket width) and the return
ReturnMarketState ==
    /\ pc = "getDynamicField"
    /\ bucketPos > Len(activeBuckets)
    /\ IF ledger.bucket_width = 0
       THEN /\ result' = Thrown("Division by zero")
            /\ pc' = "done"
            /\ UNCHANGED state
       ELSE /\ state' = MarketStateOf(ledger, activeBuckets, distribution)
            /\ pc' = IF req.op = "buy" THEN "solve" ELSE "payout"
            /\ UNCHANGED result
    /\ UNCHANGED <<otherVars, ledger, req, ioVars, positions, activeBuckets, distribution, bucketPos,
                   solverVars>>

\* estimatedShares of calculateSharesForAmount: [ok |-> TRUE, v |-> estimate],
\* or ok = FALSE when BigInt(Math.floor(...)) throws
EstimateOf(prob, amount) ==
    LET estimatedPrice == FDiv(prob, Num(100))
    IN  BigIntOf(MathFloor(FDiv(Num(amount),
                                MathMax(estimatedPrice, Fin(FRAC \div 100)))))

EstimatedShares(st, rangeMin, rangeMax, amount) ==
    EstimateOf(calculateProbability(st, rangeMin, rangeMax), amount)

\* the initial high of the binary search
UpperBound(estimatedShares, maxSharesPerBucket) ==
    IF estimatedShares < maxSharesPerBucket
    THEN estimatedShares * 3
    ELSE maxSharesPerBucket

\* what calculateSharesForAmount reads of its state argument: the state
\* getMarketState returned to getBuyQuote, or the view of a market when the
\* solver runs on its own
ProbabilityOfRange ==
    IF req.op = "solve" THEN view.probability
    ELSE calculateProbability(state, req.rangeMin, req.rangeMax)

SharesCap ==
    IF req.op = "solve" THEN view.maxSharesPerBucket ELSE state.maxSharesPerBucket

\* calculateCostForShares as a view holds it: the line base + shares * num /
\* den, and a failure above failAbove shares
CurveCost(curve, shares) ==
    IF shares > curve.failAbove
    THEN [ok |-> FALSE, v |-> 0]
    ELSE LET cost == curve.base + (shares * curve.num) \div curve.den
         IN  [ok |-> TRUE, v |-> IF cost > 0 THEN cost ELSE 0]

\* the cost of a candidate of the running call
CostAt(shares) ==
    IF req.op = "solve" THEN CurveCost(view.curve, shares)
    ELSE calculateCostForShares(state, req.rangeMin, req.rangeMax, shares)

\* calculateSharesForAmount before the loop: the probability-weighted
\* estimate (BigInt of a NaN estimate throws) and the search interval
SolveStart ==
    /\ pc = "solve"
    /\ LET estimatedShares == EstimateOf(ProbabilityOfRange, req.amount)
       IN  IF ~estimatedShares.ok
           THEN /\ result' = Thrown("RangeError")
                /\ pc' = "done"
                /\ UNCHANGED <<low, high, bestShares, bestCost, i>>
           ELSE /\ low' = 1
                /\ high' = UpperBound(estimatedShares.v, SharesCap)
                /\ bestShares' = 0
                /\ bestCost' = 0
                /\ i' = 0
                /\ pc' = "search"
                /\ UNCHANGED result
    /\ UNCHANGED <<otherVars, ledger, req, ioVars, positions, readerVars, delta, evaluated>>

\* a faulty acceptance test: any candidate whose evaluation did not throw
AffordableAnyCost(cost, amount) == cost.ok

\* a faulty acceptance test: a candidate whose evaluation threw is accepted
AffordableOrFailed(cost, amount) == ~cost.ok \/ cost.v <= amount

\* the candidate is accepted: cost <= amount, the evaluation did not throw
Affordable(cost, amount) == cost.ok /\ cost.v <= amount

\* a faulty narrowing: the share count below the rejected one is skipped
HighBelowSkipping(mid) == mid - 2

\* a faulty narrowing: the rejected share count stays in the interval
HighBelowStuck(mid) == mid

\* high after a candidate was rejected or failed to evaluate
HighBelow(mid) == mid - 1

\* a faulty iteration: the accepted candidate's shares are written into the
\* distribution of the state the solver was given
SearchStepWritingState ==
    /\ pc = "search"
    /\ i < MAX_ITERATIONS
    /\ low <= high
    /\ LET mid == BigIntDiv(low + high, 2)
           cost == calculateCostForShares(state, req.rangeMin, req.rangeMax, mid)
           utilization == FDiv(Num(cost.v), Num(req.amount))
           span == mapRangeToBuckets(req.rangeMin, req.rangeMax,
                                     state.bucketWidth, state.minValue)
       IN  /\ evaluated' = evaluated \cup {mid}
           /\ IF Affordable(cost, req.amount)
              THEN /\ bestShares' = mid
                   /\ bestCost' = cost.v
                   /\ state' = [state EXCEPT !.distribution =
                                  [b \in DOMAIN @ |->
                                     IF InRange(b, span) THEN @[b] + mid ELSE @[b]]]
                   /\ IF FGe(utilization, Fin((99 * FRAC) \div 100))
                      THEN pc' = "refine" /\ UNCHANGED <<low, high, i>>
                      ELSE low' = mid + 1 /\ i' = i + 1 /\ UNCHANGED <<pc, high>>
              ELSE /\ high' = HighBelow(mid)
                   /\ i' = i + 1
                   /\ UNCHANGED <<pc, low, bestShares, bestCost, state>>
    /\ UNCHANGED <<otherVars, ledger, req, ioVars, positions, activeBuckets, distribution, bucketPos,
                   delta, result>>

\* one iteration of the binary search that evaluates a midpoint
SearchStep ==
    /\ pc = "search"
    /\ i < MAX_ITERATIONS
    /\ low <= high
    /\ LET mid == BigIntDiv(low + high, 2)
           cost == CostAt(mid)
           utilization == FDiv(Num(cost.v), Num(req.amount))
       IN  /\ evaluated' = evaluated \cup {mid}
           /\ IF Affordable(cost, req.amount)
              THEN /\ bestShares' = mid
                   /\ bestCost' = cost.v
                   /\ IF FGe(utilization, Fin((99 * FRAC) \div 100))
                      THEN pc' = "refine" /\ UNCHANGED <<low, high, i>>
                      ELSE low' = mid + 1 /\ i' = i + 1 /\ UNCHANGED <<pc, high>>
              ELSE /\ high' = HighBelow(mid)
                   /\ i' = i + 1
                   /\ UNCHANGED <<pc, low, bestShares, bestCost>>
    /\ UNCHANGED <<otherVars, ledger, req, ioVars, positions, readerVars, delta, result>>

\* the binary search ends: the iteration budget is used up or low > high
SearchExit ==
    /\ pc = "search"
    /\ (i >= MAX_ITERATIONS \/ low > high)
    /\ pc' = "refine"
    /\ UNCHANGED <<otherVars, ledger, req, ioVars, positions, readerVars, solverVars, result>>

\* the refinement phase is entered only with utilization in [95%, 99%)
RefineStart ==
    /\ pc = "refine"
    /\ LET utilization == FDiv(Num(bestCost), Num(req.amount))
       IN  IF /\ bestShares > 0
              /\ bestCost < req.amount
              /\ FGe(utilization, Fin((95 * FRAC) \div 100))
              /\ FLt(utilization, Fin((99 * FRAC) \div 100))
           THEN pc' = "refineLoop" /\ delta' = 1
           ELSE pc' = "quote" /\ UNCHANGED delta
    /\ UNCHANGED <<otherVars, ledger, req, ioVars, positions, readerVars, low, high, bestShares, bestCost,
                   i, evaluated, result>>

\* one iteration of the refinement loop
RefineStep ==
    /\ pc = "refineLoop"
    /\ LET testShares == bestShares + delta
           testCost == CostAt(testShares)
           newUtil == FDiv(Num(testCost.v), Num(req.amount))
       IN  IF delta > REFINE_WINDOW \/ testShares > SharesCap
           THEN pc' = "quote" /\ UNCHANGED <<bestShares, bestCost, delta, evaluated>>
           ELSE /\ evaluated' = evaluated \cup {testShares}
                /\ IF Affordable(testCost, req.amount)
                   THEN /\ bestShares' = testShares
                        /\ bestCost' = testCost.v
                        /\ IF FGe(newUtil, Fin((99 * FRAC) \div 100))
                           THEN pc' = "quote" /\ UNCHANGED delta
                           ELSE delta' = delta + REFINE_STEP /\ UNCHANGED pc
                   ELSE pc' = "quote" /\ UNCHANGED <<bestShares, bestCost, delta>>
    /\ UNCHANGED <<otherVars, ledger, req, ioVars, positions, readerVars, low, high, i, result>>

\* minSharesOut of getBuyQuote
MinSharesOut(shares, slippagePercent) ==
    shares - BigIntDiv(shares * BigIntOf(MathFloor(FMul(slippagePercent, Num(100)))).v, 100)

\* minUsdcOut of getSellQuote
MinUsdcOut(payout, slippage) ==
    BigIntOf(MathFloor(FMul(Num(payout), FSub(Fin(FRAC), slippage)))).v

\* pricePerShare of getBuyQuote
BuyPricePerShare(shares, cost) ==
    IF shares > 0 THEN FDiv(Num(cost), Num(shares)) ELSE Fin(0)

\* pricePerShare of getSellQuote
SellPricePerShare(payout, shares) == FDiv(Num(payout), Num(shares))

\* getBuyQuote after the solver returned {shares: bestShares, cost: bestCost}
BuyQuote ==
    /\ pc = "quote"
    /\ result' = [NoResult EXCEPT
                    !.kind = "buy",
                    !.shares = bestShares,
                    !.cost = bestCost,
                    !.costUSDC = FDiv(Num(bestCost), Num(MICRO)),
                    !.pricePerShare = BuyPricePerShare(bestShares, bestCost),
                    !.probability = calculateProbability(state, req.rangeMin, req.rangeMax),
                    !.minSharesOut = MinSharesOut(bestShares, req.slippagePercent)]
    /\ pc' = "done"
    /\ UNCHANGED <<otherVars, ledger, req, ioVars, positions, readerVars, solverVars>>

\* getSellQuote after the state read: the SellQuote, or the RangeError that
\* BigInt(Math.round(payout)) throws inside calculatePayoutForShares
SellQuoteOf(st, rangeMin, rangeMax, shares, slippage) ==
    LET payout == calculatePayoutForShares(st, rangeMin, rangeMax, shares)
    IN  IF ~payout.ok THEN Thrown("RangeError")
        ELSE [NoResult EXCEPT
                !.kind = "sell",
                !.payout = payout.v,
                !.payoutUSDC = FDiv(Num(payout.v), Num(MICRO)),
                !.pricePerShare = SellPricePerShare(payout.v, shares),
                !.probability = calculateProbability(st, rangeMin, rangeMax),
                !.minUsdcOut = MinUsdcOut(payout.v, slippage)]

\* getSellQuote after the state read, called directly or by
\* calculatePositionPnL
SellQuote ==
    /\ pc = "payout"
    /\ LET quote == SellQuoteOf(state, req.rangeMin, req.rangeMax, req.amount,
                                req.slippagePercent)
       IN  /\ result' = quote
           /\ pc' = IF req.op = "position" /\ quote.kind = "sell"
                    THEN "position" ELSE "done"
    /\ UNCHANGED <<otherVars, ledger, req, ioVars, positions, readerVars, solverVars>>

\* a caller invokes calculatePositionPnL(client, marketId, rangeStart,
\* rangeEnd, shares, costBasis): its first statement is getSellQuote with
\* slippage 0
CallCalculatePositionPnL ==
    /\ pc = "idle"
    /\ \E rmin \in RangeMins, rmax \in RangeMaxs, shares \in ShareCounts,
          costBasis \in CostBases :
          req' = [NoRequest EXCEPT
                    !.op = "position", !.rangeMin = rmin, !.rangeMax = rmax,
                    !.amount = shares, !.costBasis = costBasis]
    /\ pc' = "getObject"
    /\ UNCHANGED <<otherVars, ledger, ioVars, positions, readerVars, solverVars, result>>

\* the PositionPnL calculatePositionPnL builds from the sell quote
PositionPnLOf(rangeStart, rangeEnd, shares, costBasis, sellQuote) ==
    LET unrealizedPnL == sellQuote.payout - costBasis
    IN  [rangeStart |-> rangeStart,
         rangeEnd |-> rangeEnd,
         shares |-> shares,
         costBasis |-> costBasis,
         currentValue |-> sellQuote.payout,
         unrealizedPnL |-> unrealizedPnL,
         unrealizedPnLPercent |->
             FMul(FDiv(Num(unrealizedPnL), Num(costBasis)), Num(100)),
         probability |-> sellQuote.probability]

\* calculatePositionPnL after getSellQuote returned
PositionPnL ==
    /\ pc = "position"
    /\ result' = [NoResult EXCEPT
                    !.kind = "position",
                    !.pnl = PositionPnLOf(req.rangeMin, req.rangeMax, req.amount,
                                          req.costBasis, result)]
    /\ pc' = "done"
    /\ UNCHANGED <<otherVars, ledger, req, ioVars, positions, readerVars, solverVars>>

\* the for loop of calculateRealizedPnL: a buy adds its amount to
\* totalBought, any other trade adds its amount to totalSold
RECURSIVE Accumulate(_, _)
Accumulate(trades, totals) ==
    IF trades = <<>> THEN totals
    ELSE LET trade == Head(trades)
         IN  Accumulate(Tail(trades),
                        IF trade.type = "buy"
                        THEN [totals EXCEPT !.totalBought = @ + trade.amount]
                        ELSE [totals EXCEPT !.totalSold = @ + trade.amount])

\* a faulty percentage: the division is not guarded by totalBought > 0n
calculateRealizedPnLUnguarded(trades) ==
    LET totals == Accumulate(trades, [totalBought |-> 0, totalSold |-> 0])
        realizedPnL == totals.totalSold - totals.totalBought
    IN  [totalBought |-> totals.totalBought,
         totalSold |-> totals.totalSold,
         realizedPnL |-> realizedPnL,
         realizedPnLPercent |->
             FMul(FDiv(Num(realizedPnL), Num(totals.totalBought)), Num(100))]

calculateRealizedPnL(trades) ==
    LET totals == Accumulate(trades, [totalBought |-> 0, totalSold |-> 0])
        realizedPnL == totals.totalSold - totals.totalBought
    IN  [totalBought |-> totals.totalBought,
         totalSold |-> totals.totalSold,
         realizedPnL |-> realizedPnL,
         realizedPnLPercent |->
             IF totals.totalBought > 0
             THEN FMul(FDiv(Num(realizedPnL), Num(totals.totalBought)), Num(100))
             ELSE Fin(0)]

\* a caller invokes calculateRealizedPnL(trades): synchronous, no state read
CallCalculateRealizedPnL ==
    /\ pc = "idle"
    /\ \E trades \in TradeLists :
          /\ req' = [NoRequest EXCEPT !.op = "realized", !.trades = trades]
          /\ LET realized == calculateRealizedPnL(trades)
             IN  result' = [NoResult EXCEPT
                              !.kind = "realized",
                              !.totalBought = realized.totalBought,
                              !.totalSold = realized.totalSold,
                              !.realizedPnL = realized.realizedPnL,
                              !.realizedPnLPercent = realized.realizedPnLPercent]
    /\ pc' = "done"
    /\ UNCHANGED <<otherVars, ledger, ioVars, positions, readerVars, solverVars>>

\* one calculatePositionPnL call started by calculateTotalPnL, waiting for
\* the market object
InFlight(position) ==
    [pc |-> "getObject", position |-> position, activeBuckets |-> <<>>,
     distribution |-> EmptyMap, bucketPos |-> 0, pnl |-> NoPnL, error |-> ""]

\* a caller invokes calculateTotalPnL(client, marketId, openPositions,
\* trades): openPositions.map starts one calculatePositionPnL per position
\* and Promise.all waits for all of them
CallCalculateTotalPnL ==
    /\ pc = "idle"
    /\ \E open \in PositionLists, trades \in PortfolioTrades :
          /\ req' = [NoRequest EXCEPT
                       !.op = "total", !.trades = trades, !.openPositions = open]
          /\ positions' = [n \in 1 .. Len(open) |-> InFlight(open[n])]
    /\ pc' = "all"
    /\ UNCHANGED <<otherVars, ledger, ioVars, readerVars, solverVars, result>>

\* a position's call resumes after a read was answered: it waits for the
\* next per-bucket read or, after the last one, getMarketState returns and
\* getSellQuote and calculatePositionPnL run to their end
Resume(p) ==
    IF p.bucketPos <= Len(p.activeBuckets) THEN [p EXCEPT !.pc = "getDynamicField"]
    ELSE LET quote ==
               IF ledger.bucket_width = 0 THEN Thrown("Division by zero")
               ELSE SellQuoteOf(MarketStateOf(ledger, p.activeBuckets, p.distribution),
                                p.position.rangeStart, p.position.rangeEnd,
                                p.position.shares, Fin(0))
         IN  IF quote.kind = "error"
             THEN [InFlight(p.position) EXCEPT !.pc = "rejected", !.error = quote.error]
             ELSE [InFlight(p.position) EXCEPT
                     !.pc = "fulfilled",
                     !.pnl = PositionPnLOf(p.position.rangeStart, p.position.rangeEnd,
                                           p.position.shares, p.position.costBasis,
                                           quote)]

\* the n-th position's call has taken a step: a rejected call rejects
\* Promise.all and calculateTotalPnL throws its error
Settle(n, p) ==
    IF p.pc = "rejected"
    THEN /\ result' = Thrown(p.error)
         /\ pc' = "done"
         /\ UNCHANGED positions
    ELSE /\ positions' = [positions EXCEPT ![n] = p]
         /\ UNCHANGED <<pc, result>>

\* client.getObject of the n-th position's getMarketState answers
PositionGetObject(n) ==
    /\ pc = "all"
    /\ positions[n].pc = "getObject"
    /\ reads' = reads + 1
    /\ objectReads' = objectReads + 1
    /\ \E answered \in ReadAnswers(failedReads) :
          /\ failedReads' = IF answered THEN failedReads ELSE failedReads + 1
          /\ LET error == IF answered THEN ShapeError(ledger) ELSE "RpcError"
             IN  IF error # ""
                 THEN Settle(n, [positions[n] EXCEPT !.pc = "rejected", !.error = error])
                 ELSE Settle(n, Resume([positions[n] EXCEPT
                                          !.activeBuckets = ledger.active_buckets,
                                          !.bucketPos = 1]))
    /\ UNCHANGED <<otherVars, ledger, req, readerVars, solverVars>>

\* one per-bucket read of the n-th position's getMarketState answers
PositionGetDynamicField(n) ==
    /\ pc = "all"
    /\ positions[n].pc = "getDynamicField"
    /\ reads' = reads + 1
    /\ \E answered \in ReadAnswers(failedReads) :
          /\ failedReads' = IF answered THEN failedReads ELSE failedReads + 1
          /\ LET p == positions[n]
             IN  Settle(n, Resume([p EXCEPT
                                     !.distribution =
                                         BucketRead(ledger, @, p.activeBuckets[p.bucketPos],
                                                    answered),
                                     !.bucketPos = @ + 1]))
    /\ UNCHANGED <<otherVars, ledger, req, objectReads, readerVars, solverVars>>

\* the calls Promise.all waits for take their steps in any order
BatchGetObject == \E n \in DOMAIN positions : PositionGetObject(n)
BatchGetDynamicField == \E n \in DOMAIN positions : PositionGetDynamicField(n)

\* positions.reduce((sum, p) => sum + p.<field>, 0n) over the values of a field
RECURSIVE Reduce(_)
Reduce(values) ==
    IF values = <<>> THEN 0 ELSE Head(values) + Reduce(Tail(values))

\* calculateTotalPnL after Promise.all resolved with the positions in the
\* order of openPositions
TotalPnL ==
    /\ pc = "all"
    /\ \A n \in DOMAIN positions : positions[n].pc = "fulfilled"
    /\ LET realized == calculateRealizedPnL(req.trades)
           pnls == [n \in DOMAIN positions |-> positions[n].pnl]
           unrealizedPnL == Reduce([n \in DOMAIN pnls |-> pnls[n].unrealizedPnL])
           totalPnL == realized.realizedPnL + unrealizedPnL
           totalInvested ==
               realized.totalBought + Reduce([n \in DOMAIN pnls |-> pnls[n].costBasis])
       IN  result' = [NoResult EXCEPT
                        !.kind = "total",
                        !.unrealizedPnL = unrealizedPnL,
                        !.realizedPnL = realized.realizedPnL,
                        !.totalPnL = totalPnL,
                        !.totalPnLPercent =
                            IF totalInvested > 0
                            THEN FMul(FDiv(Num(totalPnL), Num(totalInvested)), Num(100))
                            ELSE Fin(0),
                        !.positions = pnls]
    /\ pc' = "done"
    /\ UNCHANGED <<otherVars, ledger, req, ioVars, positions, readerVars, solverVars>>

\* a trade of another party changes the share count of one bucket of the
\* ledger between two calls of the library
LedgerUpdate ==
    /\ pc = "idle"
    /\ \E bucketIdx \in DOMAIN ledger.table, shares \in {0, HeldShares} :
          /\ shares # ledger.table[bucketIdx]
          /\ ledger' = [ledger EXCEPT !.table[bucketIdx] = shares]
    /\ UNCHANGED <<otherVars, pc, req, ioVars, positions, readerVars, solverVars, result>>

\* the caller takes the result; nothing of the call is kept
Return ==
    /\ pc = "done"
    /\ pc' = "idle"
    /\ req' = NoRequest
    /\ reads' = 0
    /\ objectReads' = 0
    /\ failedReads' = 0
    /\ positions' = <<>>
    /\ activeBuckets' = <<>>
    /\ distribution' = EmptyMap
    /\ bucketPos' = 0
    /\ state' = NoState
    /\ low' = 0 /\ high' = 0 /\ bestShares' = 0 /\ bestCost' = 0 /\ i' = 0 /\ delta' = 0
    /\ evaluated' = {}
    /\ result' = NoResult
    /\ UNCHANGED <<otherVars, ledger>>

Next ==
    \/ CallGetBuyQuote
    \/ CallGetSellQuote
    \/ GetObject
    \/ GetDynamicField
    \/ ReturnMarketState
    \/ SolveStart
    \/ SearchStep
    \/ SearchExit
    \/ RefineStart
    \/ RefineStep
    \/ BuyQuote
    \/ SellQuote
    \/ CallCalculatePositionPnL
    \/ PositionPnL
    \/ CallCalculateRealizedPnL
    \/ LedgerUpdate
    \/ Return

Spec == Init /\ [][Next]_vars

(***************************************************************************)
(* The portfolio: calculateTotalPnL over the open positions of one market, *)
(* each position read and priced by its own calculatePositionPnL call.     *)
(***************************************************************************)
\* the market objects of the portfolio: the share cap plays no part in a sale
PortfolioLedgers == {obj \in Ledgers : obj.max_shares_per_bucket = 0}

PortfolioInit ==
    /\ ledger \in PortfolioLedgers
    /\ pc = "idle"
    /\ req = NoRequest
    /\ reads = 0
    /\ objectReads = 0
    /\ failedReads = 0
    /\ positions = <<>>
    /\ activeBuckets = <<>>
    /\ distribution = EmptyMap
    /\ bucketPos = 0
    /\ state = NoState
    /\ low = 0 /\ high = 0 /\ bestShares = 0 /\ bestCost = 0 /\ i = 0 /\ delta = 0
    /\ evaluated = {}
    /\ result = NoResult
    /\ ServiceInit

PortfolioNext ==
    \/ CallCalculateTotalPnL
    \/ BatchGetObject
    \/ BatchGetDynamicField
    \/ TotalPnL
    \/ LedgerUpdate
    \/ Return

SpecPortfolio == PortfolioInit /\ [][PortfolioNext]_vars

(***************************************************************************)
(* The cost scenario: a market with alpha = 1,000,000 whose single active  *)
(* bucket 5 holds 0 shares, bucket width 100, and buy quotes for the range *)
(* [500, 600).  The amounts make the solver evaluate 100,000 shares and    *)
(* stop at the cap of alpha shares.  With alpha this large the fixed-point *)
(* Numbers resolve a cost to about 1,000 micro-units only; at 100,000      *)
(* shares q / alpha = 0.1 is exact and the rounded cost is the one the     *)
(* doubles of the code give, alpha * ln(exp(0.1)) rounded = 100,000.       *)
(***************************************************************************)
ScenarioLedger ==
    [shape |-> "ok", active_buckets |-> <<5>>, table |-> (5 :> 0),
     liquidity_parameter |-> 1000000, max_shares_per_bucket |-> 0,
     bucket_width |-> 100, virtual_min |-> 0, virtual_max |-> 1000, balance |-> 0]

ScenarioAmounts == {100000, 133333, 1020000}

ScenarioInit ==
    /\ ledger = ScenarioLedger
    /\ pc = "idle"
    /\ req = NoRequest
    /\ reads = 0
    /\ objectReads = 0
    /\ failedReads = 0
    /\ positions = <<>>
    /\ activeBuckets = <<>>
    /\ distribution = EmptyMap
    /\ bucketPos = 0
    /\ state = NoState
    /\ low = 0 /\ high = 0 /\ bestShares = 0 /\ bestCost = 0 /\ i = 0 /\ delta = 0
    /\ evaluated = {}
    /\ result = NoResult
    /\ ServiceInit

\* getBuyQuote for the range [500, 600) of the scenario
CallScenarioBuyQuote ==
    /\ pc = "idle"
    /\ \E amount \in ScenarioAmounts :
          req' = [op |-> "buy", rangeMin |-> 500, rangeMax |-> 600,
                  amount |-> amount, slippagePercent |-> Fin(0)]
    /\ pc' = "getObject"
    /\ UNCHANGED <<otherVars, ledger, ioVars, positions, readerVars, solverVars, result>>

ScenarioNext ==
    \/ CallScenarioBuyQuote
    \/ GetObject
    \/ GetDynamicField
    \/ ReturnMarketState
    \/ SolveStart
    \/ SearchStep
    \/ SearchExit
    \/ RefineStart
    \/ RefineStep
    \/ BuyQuote
    \/ Return

SpecScenario == ScenarioInit /\ [][ScenarioNext]_vars

(***************************************************************************)
(* getMarketState while trades of other parties reach the ledger: the      *)
(* market object and each active bucket are read by requests of their own, *)
(* and a trade may be executed between any two of them.                    *)
(***************************************************************************)
\* a trade of another party changes the share count of one bucket while
\* the running call waits for a read
Trade ==
    /\ pc \in {"getObject", "getDynamicField"}
    /\ Cardinality(tablesSeen) < MaxTradesDuringRead
    /\ \E bucketIdx \in DOMAIN ledger.table, shares \in {0, HeldShares} :
          /\ shares # ledger.table[bucketIdx]
          /\ ledger' = [ledger EXCEPT !.table[bucketIdx] = shares]
    /\ tablesSeen' = tablesSeen \cup {ledger.table}
    /\ UNCHANGED <<view, serviceVars, pc, req, ioVars, positions, readerVars,
                   solverVars, result>>

\* markets with alpha and a share cap whose active buckets all have an entry
TradingLedgers ==
    {MarketObject("ok", MaxActive, t, Alpha, BigCap, BucketWidth) :
        t \in [0 .. MaxActive - 1 -> {0, HeldShares}]}

TradingInit ==
    /\ Init
    /\ ledger \in TradingLedgers

TradingNext ==
    \/ CallGetSellQuote
    \/ GetObject
    \/ GetDynamicField
    \/ ReturnMarketState
    \/ SellQuote
    \/ Trade

SpecTrading == TradingInit /\ [][TradingNext]_vars

(***************************************************************************)
(* WaitlistService.activateCode: requests run concurrently, each suspended *)
(* at its findOne and at its save.                                         *)
(***************************************************************************)
\* a request POST /api/waitlist/activate arrives: activateCode(dto) starts
\* and waits for findOne
ActivateCode(c) ==
    /\ activations[c].pc = "idle"
    /\ \E code \in RequestedCodes, wallet \in Wallets :
          activations' = [activations EXCEPT
                            ![c] = [NoActivation EXCEPT
                                      !.pc = "findOne",
                                      !.access_code = code,
                                      !.wallet_address = wallet]]
    /\ UNCHANGED <<pricingVars, view, tablesSeen, enokiVars, waitlistModel>>

\* findOne({access_code: dto.access_code.toUpperCase()}) answers: the checks
\* of activateCode and the changes to the document in memory, up to save
ActivateFindOne(c) ==
    /\ activations[c].pc = "findOne"
    /\ LET call == activations[c]
           code == toUpperCase(call.access_code)
       IN  IF code \notin DOMAIN waitlistModel
           THEN activations' = [activations EXCEPT
                                  ![c].pc = "done", ![c].error = "NotFoundException"]
           ELSE LET entry == waitlistModel[code]
                IN  IF call.wallet_address \in SeqToSet(entry.wallet_addresses)
                    THEN activations' = [activations EXCEPT
                                           ![c].pc = "done",
                                           ![c].found = entry.status,
                                           ![c].error = "ConflictException"]
                    ELSE activations' = [activations EXCEPT
                                           ![c].pc = "save",
                                           ![c].found = entry.status,
                                           ![c].entry =
                                               [status |-> "used",
                                                wallet_addresses |->
                                                    Append(entry.wallet_addresses,
                                                           call.wallet_address)]]
    /\ UNCHANGED <<pricingVars, view, tablesSeen, enokiVars, waitlistModel>>

\* entry.save() answers: the pushed wallet reaches the stored array, either
\* as a push onto the array as stored now or as the array the call holds,
\* and activateCode returns 'Access granted'
ActivateSave(c) ==
    /\ activations[c].pc = "save"
    /\ LET call == activations[c]
           code == toUpperCase(call.access_code)
           stored == waitlistModel[code].wallet_addresses
       IN  /\ \E written \in {Append(stored, call.wallet_address),
                               call.entry.wallet_addresses} :
                 waitlistModel' = [waitlistModel EXCEPT
                                     ![code] = [status |-> "used",
                                                wallet_addresses |-> written]]
           /\ activations' = [activations EXCEPT
                                ![c].pc = "done",
                                ![c].message = "Access granted",
                                ![c].total_wallets = Len(call.entry.wallet_addresses)]
    /\ UNCHANGED <<pricingVars, view, tablesSeen, enokiVars>>

\* the response is sent; nothing of the call is kept
ActivateReturn(c) ==
    /\ activations[c].pc = "done"
    /\ activations' = [activations EXCEPT ![c] = NoActivation]
    /\ UNCHANGED <<pricingVars, view, tablesSeen, enokiVars, waitlistModel>>

Activate == \E c \in ActivateCalls : ActivateCode(c)
FindOne == \E c \in ActivateCalls : ActivateFindOne(c)
Save == \E c \in ActivateCalls : ActivateSave(c)
Respond == \E c \in ActivateCalls : ActivateReturn(c)

WaitlistInit ==
    /\ ledger = MarketObject("ok", 0, EmptyMap, 0, 0, BucketWidth)
    /\ pc = "idle"
    /\ req = NoRequest
    /\ reads = 0
    /\ objectReads = 0
    /\ failedReads = 0
    /\ positions = <<>>
    /\ activeBuckets = <<>>
    /\ distribution = EmptyMap
    /\ bucketPos = 0
    /\ state = NoState
    /\ low = 0 /\ high = 0 /\ bestShares = 0 /\ bestCost = 0 /\ i = 0 /\ delta = 0
    /\ evaluated = {}
    /\ result = NoResult
    /\ ServiceInit

WaitlistNext ==
    \/ Activate
    \/ FindOne
    \/ Save
    \/ Respond

SpecWaitlist == WaitlistInit /\ [][WaitlistNext]_vars

(***************************************************************************)
(* EnokiService.sponsorTransaction: requests run concurrently, each        *)
(* suspended at its two usage queries, at the requests to Enoki, at the    *)
(* execution of the transaction and at the insert of its usage record.     *)
(***************************************************************************)
\* the $sum of gas_used over the records of a sequence of sponsorships
RECURSIVE SumGas(_)
SumGas(records) ==
    IF records = <<>> THEN 0
    ELSE Head(records).gas_used + SumGas(Tail(records))

\* getUserDailyUsage: the records of today with this user_address
getUserDailyUsage(userAddress) ==
    SumGas(SelectSeq(sponsorshipModel, LAMBDA r : r.user_address = userAddress))

\* totalUsage of checkGlobalBudget: all records of today
GlobalDailyUsage == SumGas(sponsorshipModel)

\* a request POST /api/enoki/sponsor arrives: sponsorTransaction starts and
\* waits for checkUserEligibility
SponsorTransaction(c) ==
    /\ sponsorCalls[c].pc = "idle"
    /\ Len(sponsorshipModel) < MaxSponsorships
    /\ \E userAddress \in SponsoredUsers :
          sponsorCalls' = [sponsorCalls EXCEPT
                             ![c] = [NoSponsorCall EXCEPT
                                       !.pc = "checkUserEligibility",
                                       !.userAddress = userAddress]]
    /\ UNCHANGED <<pricingVars, view, tablesSeen, waitlistVars, sponsorshipModel>>

\* checkUserEligibility answers: eligible when the remaining quota is
\* positive; a failed usage query is caught and counts as not eligible
CheckUserEligibility(c) ==
    /\ sponsorCalls[c].pc = "checkUserEligibility"
    /\ \E answered \in BOOLEAN :
          LET todayUsage == getUserDailyUsage(sponsorCalls[c].userAddress)
              quota == DailyLimitPerUser - todayUsage
              remainingQuota == IF quota > 0 THEN quota ELSE 0
              eligible == answered /\ remainingQuota > 0
          IN  sponsorCalls' =
                  IF eligible
                  THEN [sponsorCalls EXCEPT ![c].pc = "checkGlobalBudget"]
                  ELSE [sponsorCalls EXCEPT
                          ![c].pc = "done", ![c].error = "TOO_MANY_REQUESTS"]
    /\ UNCHANGED <<pricingVars, view, tablesSeen, waitlistVars, sponsorshipModel>>

\* checkGlobalBudget answers: totalUsage < globalLimit
CheckGlobalBudget(c) ==
    /\ sponsorCalls[c].pc = "checkGlobalBudget"
    /\ sponsorCalls' =
          IF GlobalDailyUsage < GlobalDailyBudget
          THEN [sponsorCalls EXCEPT ![c].pc = "sponsor"]
          ELSE [sponsorCalls EXCEPT
                  ![c].pc = "done", ![c].error = "TOO_MANY_REQUESTS"]
    /\ UNCHANGED <<pricingVars, view, tablesSeen, waitlistVars, sponsorshipModel>>

\* the two requests to Enoki answer: the sponsored transaction and its
\* sponsor signature, or an error that becomes a BadRequestException
EnokiSponsor(c) ==
    /\ sponsorCalls[c].pc = "sponsor"
    /\ \E ok \in BOOLEAN :
          sponsorCalls' =
              IF ok
              THEN [sponsorCalls EXCEPT ![c].pc = "executeTransactionBlock"]
              ELSE [sponsorCalls EXCEPT
                      ![c].pc = "done", ![c].error = "BadRequestException"]
    /\ UNCHANGED <<pricingVars, view, tablesSeen, waitlistVars, sponsorshipModel>>

\* suiClient.executeTransactionBlock answers: the sponsored transaction was
\* executed and used gasUsed of the sponsor's gas
ExecuteTransactionBlock(c) ==
    /\ sponsorCalls[c].pc = "executeTransactionBlock"
    /\ \E gasUsed \in GasCosts :
          sponsorCalls' = [sponsorCalls EXCEPT
                             ![c].pc = "trackSponsorshipUsage",
                             ![c].gasUsed = gasUsed]
    /\ UNCHANGED <<pricingVars, view, tablesSeen, waitlistVars, sponsorshipModel>>

\* trackSponsorshipUsage: sponsorshipModel.create answers
TrackSponsorshipUsage(c) ==
    /\ sponsorCalls[c].pc = "trackSponsorshipUsage"
    /\ sponsorshipModel' =
          Append(sponsorshipModel,
                 [user_address |-> sponsorCalls[c].userAddress,
                  gas_used |-> sponsorCalls[c].gasUsed])
    /\ sponsorCalls' = [sponsorCalls EXCEPT ![c].pc = "done"]
    /\ UNCHANGED <<pricingVars, view, tablesSeen, waitlistVars>>

\* the response is sent; nothing of the call is kept
SponsorReturn(c) ==
    /\ sponsorCalls[c].pc = "done"
    /\ sponsorCalls' = [sponsorCalls EXCEPT ![c] = NoSponsorCall]
    /\ UNCHANGED <<pricingVars, view, tablesSeen, waitlistVars, sponsorshipModel>>

EnokiInit == WaitlistInit

EnokiNext ==
    \E c \in SponsorCalls :
        \/ SponsorTransaction(c)
        \/ CheckUserEligibility(c)
        \/ CheckGlobalBudget(c)
        \/ EnokiSponsor(c)
        \/ ExecuteTransactionBlock(c)
        \/ TrackSponsorshipUsage(c)
        \/ SponsorReturn(c)

SpecEnoki == EnokiInit /\ [][EnokiNext]_vars

(***************************************************************************)
(* calculateSharesForAmount on its own, on markets whose share counts are  *)
(* in the hundreds of thousands.  Of such a market the solver reads the    *)
(* probability of the range, maxSharesPerBucket and the cost of each share *)
(* count it evaluates; a view holds these, the costs as the line           *)
(* base + shares * num / den through the values calculateCostForShares     *)
(* rounds to, and as a failure (BigInt of a non-finite cost throws) above  *)
(* failAbove shares.                                                       *)
(***************************************************************************)
\* the largest share count of any view; no evaluation fails below it
NoFailure == 2000000

\* alpha = 1,240,000, active buckets 0 and 1 holding 0 and 7,440,000 shares,
\* range on bucket 0: probability 0.247 %, the cost of 600,000 shares is
\* 1907, of 619,020 shares 1983
LongOdds ==
    [probability |-> Fin((247 * FRAC) \div 1000), maxSharesPerBucket |-> NoFailure,
     curve |-> [base |-> -493, num |-> 4, den |-> 1000, failAbove |-> NoFailure],
     amounts |-> {2000}]

\* the same market with max_shares_per_bucket = 610,000
LongOddsCapped == [LongOdds EXCEPT !.maxSharesPerBucket = 610000]

\* alpha = 14,600,000, one active bucket 1 holding 131,213,073 shares, range
\* on the inactive bucket 0: probability 0, the cost of 1 share is 1825, of
\* 600,000 shares 1900, of 1,095,100 shares 1961
InactiveRange ==
    [probability |-> Fin(0), maxSharesPerBucket |-> NoFailure,
     curve |-> [base |-> 1825, num |-> 1, den |-> 8000, failAbove |-> NoFailure],
     amounts |-> {1000, 2000}]

\* alpha = 1000, one active bucket 0 holding 0 shares, range on it:
\* probability 100 %, the cost of n shares is n
CertainRange ==
    [probability |-> Num(100), maxSharesPerBucket |-> 1000000,
     curve |-> [base |-> 0, num |-> 1, den |-> 1, failAbove |-> NoFailure],
     amounts |-> {1, 100, 2000}]

\* alpha = 1, one active bucket 0 holding 700 shares, range on it: the cost
\* of n <= 9 shares is n, Math.exp overflows from 10 shares on
Overflowing ==
    [probability |-> Num(100), maxSharesPerBucket |-> 1000,
     curve |-> [base |-> 0, num |-> 1, den |-> 1, failAbove |-> 9],
     amounts |-> {1, 100, 2000}]

\* alpha = 1000, no active bucket: probability 0, Math.log(0) makes every
\* cost infinite
NoActiveBucket ==
    [probability |-> Fin(0), maxSharesPerBucket |-> 1000000,
     curve |-> [base |-> 0, num |-> 0, den |-> 1, failAbove |-> 0],
     amounts |-> {1, 100, 2000}]

\* alpha = 1, one active bucket 0 holding 710 shares, range on it: Math.exp
\* gives Infinity, the probability Infinity / Infinity is NaN and every cost
\* is NaN
Saturated ==
    [probability |-> NaN, maxSharesPerBucket |-> 1000,
     curve |-> [base |-> 0, num |-> 0, den |-> 1, failAbove |-> 0],
     amounts |-> {1, 100}]

Views == {LongOdds, LongOddsCapped, InactiveRange, CertainRange, Overflowing,
          NoActiveBucket, Saturated}

\* calculateSharesForAmount(state, rangeMin, rangeMax, amount) is called
CallCalculateSharesForAmount ==
    /\ pc = "idle"
    /\ \E v \in Views :
          /\ view' = [probability |-> v.probability,
                      maxSharesPerBucket |-> v.maxSharesPerBucket,
                      curve |-> v.curve]
          /\ \E amount \in v.amounts :
                req' = [NoRequest EXCEPT !.op = "solve", !.amount = amount]
    /\ pc' = "solve"
    /\ UNCHANGED <<ledger, ioVars, positions, readerVars, solverVars, result,
                   tablesSeen, serviceVars>>

\* return { shares: bestShares, cost: bestCost }
SolverReturn ==
    /\ pc = "quote"
    /\ result' = [NoResult EXCEPT
                    !.kind = "solved", !.shares = bestShares, !.cost = bestCost]
    /\ pc' = "done"
    /\ UNCHANGED <<otherVars, ledger, req, ioVars, positions, readerVars, solverVars>>

SolverInit == WaitlistInit

\* the steps of one call: the function is synchronous, it runs to its return
SolverStep ==
    \/ SolveStart
    \/ SearchStep
    \/ SearchExit
    \/ RefineStart
    \/ RefineStep
    \/ SolverReturn

SolverNext ==
    \/ CallCalculateSharesForAmount
    \/ SolverStep
    \/ Return

SpecSolver == SolverInit /\ [][SolverNext]_vars

\* a call that has started keeps running
SpecSolverLive == SpecSolver /\ WF_vars(SolverStep)

(***************************************************************************)
(* Properties                                                              *)
(***************************************************************************)

BuyReturned == pc = "done" /\ result.kind = "buy"
SellReturned == pc = "done" /\ result.kind = "sell"
InSolver == pc \in {"search", "refine", "refineLoop", "quote"}

CostOf(shares) == calculateCostForShares(state, req.rangeMin, req.rangeMax, shares)

\* C1: for amount >= 0 the cost the solver holds as its best, and the cost
\* of the quote built from it, never exceeds the amount, whatever candidates
\* were accepted, rejected or failed to evaluate.
C1_SolverBudget ==
    (req.op = "buy" /\ req.amount >= 0) =>
        /\ bestCost <= req.amount
        /\ (BuyReturned => result.cost <= req.amount)

\* a quote of a positive share count was returned after the solver rejected
\* a larger candidate
C1_Witness ==
    /\ BuyReturned /\ req.amount > 0
    /\ result.shares > 0 /\ result.cost > 0
    /\ \E s \in evaluated : s > result.shares

\* a market without an active bucket: every evaluation failed, the quote is
\* the zero-share result
C1_WitnessFailing ==
    /\ BuyReturned /\ req.amount > 0
    /\ evaluated # {}
    /\ \A s \in evaluated : ~CostOf(s).ok

\* the cost function of the call is non-decreasing on 1 .. top: an
\* evaluation that fails counts as more expensive than any cost
CostNonDecreasing(top) ==
    \A s \in 1 .. top - 1 :
        LET c1 == CostOf(s)
            c2 == CostOf(s + 1)
        IN  c2.ok => (c1.ok /\ c1.v <= c2.v)

\* the initial high of the search of the running call
SearchBound ==
    UpperBound(EstimatedShares(state, req.rangeMin, req.rangeMax, req.amount).v,
               state.maxSharesPerBucket)

Utilization(cost) == FDiv(Num(cost), Num(req.amount))
TargetReached(cost) == FGe(Utilization(cost), Fin((99 * FRAC) \div 100))

ValidRange == req.rangeMin < req.rangeMax

\* C2 as claimed: the returned share count is the largest one whose cost is
\* within the amount, i.e. (the cost being non-decreasing) the next share
\* count is not affordable.
C2_Largest ==
    (BuyReturned /\ req.amount > 0 /\ ValidRange) =>
        \/ ~Affordable(CostOf(result.shares + 1), req.amount)
        \/ ~CostNonDecreasing(result.shares + 2)

\* C2 amended: the returned cost is within the amount, and when the search
\* interval was exhausted, either the returned cost reaches 99% of the
\* amount or no share count between the returned one and the initial upper
\* bound of the search is affordable.
C2_LargestUnlessTarget ==
    (BuyReturned /\ req.amount >= 0) =>
        /\ result.cost <= req.amount
        /\ \/ TargetReached(result.cost)
           \/ low <= high
           \/ \A s \in result.shares + 1 .. SearchBound :
                 ~Affordable(CostOf(s), req.amount)
           \/ ~CostNonDecreasing(SearchBound)

\* the search stopped at the 99% target although the next share count was
\* affordable
C2_Witness ==
    /\ BuyReturned /\ req.amount > 0
    /\ result.shares > 0
    /\ low <= high
    /\ TargetReached(result.cost)
    /\ result.shares < SearchBound
    /\ Affordable(CostOf(result.shares + 1), req.amount)
    /\ CostNonDecreasing(SearchBound)

\* C3: no candidate the solver evaluates and no share count it holds or
\* returns exceeds state.maxSharesPerBucket.
C3_Capped ==
    (req.op = "buy" /\ (InSolver \/ BuyReturned)) =>
        /\ \A s \in evaluated : s <= state.maxSharesPerBucket
        /\ bestShares <= state.maxSharesPerBucket

\* C4: the payout of selling a positive share count is at most the cost of
\* buying the same share count of the same range on the same state.
C4_PayoutAtMostCost ==
    (SellReturned /\ req.amount > 0) =>
        LET cost == CostOf(req.amount)
        IN  cost.ok /\ result.payout <= cost.v

\* C5: for rangeMin < rangeMax the mapped span is
\* {floor(rangeMin / bucketWidth), floor((rangeMax - 1) / bucketWidth)}.
C5_FloorMapping ==
    (state # NoState /\ ValidRange) =>
        mapRangeToBuckets(req.rangeMin, req.rangeMax, state.bucketWidth, state.minValue)
            = [start |-> req.rangeMin \div state.bucketWidth,
               end   |-> (req.rangeMax - 1) \div state.bucketWidth]

\* C6: a quote of zero shares has pricePerShare 0, in getBuyQuote and in
\* getSellQuote.
C6_ZeroSharePrice ==
    /\ (BuyReturned /\ result.shares = 0) => result.pricePerShare = Fin(0)
    /\ (SellReturned /\ req.amount = 0) => result.pricePerShare = Fin(0)

SlippageInUnitInterval ==
    FGe(req.slippagePercent, Fin(0)) /\ FLe(req.slippagePercent, Fin(FRAC))

\* C7: with slippagePercent in [0, 1], every buy quote has
\* 0 <= minSharesOut <= shares and every sell quote 0 <= minUsdcOut <= payout.
C7_SlippageBounds ==
    SlippageInUnitInterval =>
        /\ BuyReturned =>
              (0 <= result.minSharesOut /\ result.minSharesOut <= result.shares)
        /\ SellReturned =>
              (0 <= result.minUsdcOut /\ result.minUsdcOut <= result.payout)

\* C8: getBuyQuote with amount = 0 on a state that getMarketState returned
\* ends with a quote of shares = 0, cost = 0, pricePerShare = 0 and
\* minSharesOut = 0, without evaluating a candidate.
C8_ZeroAmount ==
    (pc = "done" /\ req.op = "buy" /\ req.amount = 0 /\ state # NoState) =>
        /\ result.kind = "buy"
        /\ result.shares = 0 /\ result.cost = 0
        /\ result.pricePerShare = Fin(0)
        /\ result.minSharesOut = 0
        /\ evaluated = {}

\* C9: a call with rangeMin >= rangeMax or a negative amount / share count
\* issues no state-source read and returns no quote.
C9_FailFast ==
    (req.op \in {"buy", "sell"} /\ (~ValidRange \/ req.amount < 0)) =>
        /\ reads = 0
        /\ result.kind \notin {"buy", "sell"}

\* C10: getMarketState returns a state only for a market object that has
\* its content, sparse distribution, buckets table and liquidity parameter,
\* and every returned state has alpha > 0 and bucketWidth > 0.
C10_StateWellFormed ==
    state # NoState =>
        /\ ledger.shape = "ok"
        /\ ledger.liquidity_parameter > 0
        /\ state.alpha > 0
        /\ state.bucketWidth > 0

\* a request with 0 <= rangeMin < rangeMax and a non-negative amount / share
\* count
PlainRequest == ValidRange /\ req.rangeMin >= 0 /\ req.amount >= 0

\* C11: a call during which a read of the state source failed (the read of
\* the market object or a per-bucket read) ends in an error: it returns no
\* quote and no PnL computed from the state it could read.
C11_ReadFailurePropagates ==
    (/\ pc = "done"
     /\ req.op \in {"buy", "sell", "position"}
     /\ PlainRequest
     /\ failedReads > 0) =>
        result.kind = "error"

\* C12: for a state with alpha > 0 and at least one active bucket, a sale of
\* shares >= 0 returns a payout that is a non-negative integer; the payout
\* evaluation does not throw, also when the sale leaves every active bucket
\* at zero shares.
C12_PayoutGuarded ==
    (/\ req.op \in {"sell", "position"}
     /\ pc \in {"position", "done"}
     /\ failedReads = 0
     /\ PlainRequest
     /\ state # NoState
     /\ state.alpha > 0
     /\ state.activeBuckets # <<>>) =>
        /\ result.kind \in {"sell", "position"}
        /\ result.payout >= 0
        /\ result.pnl.currentValue >= 0

\* the request of the running call is for the full range of the market
FullRange == req.rangeMin = state.minValue /\ req.rangeMax = state.maxValue

\* C13: for a state with at least one active bucket (and alpha > 0), the
\* probability quoted for the full range [minValue, maxValue] is 100.
C13_FullRangeIsCertain ==
    (/\ pc = "done"
     /\ result.kind \in {"buy", "sell"}
     /\ state.alpha > 0
     /\ state.activeBuckets # <<>>
     /\ failedReads = 0
     /\ PlainRequest
     /\ FullRange) =>
        result.probability = Num(100)

\* no active bucket of the state lies in the span the request's range maps to
NoActiveBucketInRange ==
    LET span == mapRangeToBuckets(req.rangeMin, req.rangeMax,
                                  state.bucketWidth, state.minValue)
    IN  \A n \in DOMAIN state.activeBuckets : ~InRange(state.activeBuckets[n], span)

\* C14: the probability calculateSharesForAmount computes from the state it
\* is given lies in [0, 100], and is 0 when the range holds no active bucket
\* or the market has no active bucket at all.
C14_ProbabilityBounds ==
    (pc = "solve" /\ failedReads = 0 /\ PlainRequest) =>
        LET probability == calculateProbability(state, req.rangeMin, req.rangeMax)
        IN  /\ FGe(probability, Fin(0))
            /\ FLe(probability, Num(100))
            /\ NoActiveBucketInRange => probability = Fin(0)

ScenarioState ==
    MarketStateOf(ScenarioLedger, ScenarioLedger.active_buckets, ScenarioLedger.table)

\* C16: in the scenario, 100,000 shares of [500, 600) cost strictly more
\* than 0 and strictly less than 100,000.
C16_CostBelowShares ==
    (/\ state = ScenarioState
     /\ req.rangeMin = 500 /\ req.rangeMax = 600
     /\ 100000 \in evaluated) =>
        /\ CostOf(100000).ok
        /\ CostOf(100000).v > 0
        /\ CostOf(100000).v < 100000

\* the amounts of the trades of one type, in the order of the list
AmountsOf(trades, type) ==
    LET chosen == SelectSeq(trades, LAMBDA trade : trade.type = type)
    IN  [n \in DOMAIN chosen |-> chosen[n].amount]

\* C17: calculateRealizedPnL returns totalBought = the sum of the buy
\* amounts, totalSold = the sum of the sell amounts, realizedPnL = totalSold
\* - totalBought and realizedPnLPercent = 0 whenever totalBought = 0; on the
\* empty list every field is 0.  It issues no read.
C17_RealizedPnL ==
    (pc = "done" /\ req.op = "realized") =>
        /\ result.kind = "realized"
        /\ result.totalBought = Reduce(AmountsOf(req.trades, "buy"))
        /\ result.totalSold = Reduce(AmountsOf(req.trades, "sell"))
        /\ result.realizedPnL = result.totalSold - result.totalBought
        /\ result.totalBought = 0 => result.realizedPnLPercent = Fin(0)
        /\ req.trades = <<>> =>
              /\ result.totalBought = 0
              /\ result.totalSold = 0
              /\ result.realizedPnL = 0
              /\ result.realizedPnLPercent = Fin(0)
        /\ reads = 0

\* calculateRealizedPnL returned for a list of a buy and a sell
C17_Witness ==
    /\ pc = "done"
    /\ req.op = "realized"
    /\ Len(req.trades) = 2
    /\ result.totalBought = BigAmount
    /\ result.totalSold = SmallAmount
    /\ result.realizedPnL = SmallAmount - BigAmount
    /\ FLt(result.realizedPnLPercent, Fin(0))

\* the Map an undisturbed getMarketState fills from a market object
LedgerDistribution(obj) ==
    [b \in SeqToSet(obj.active_buckets) \cap DOMAIN obj.table |-> obj.table[b]]

\* the MarketState an undisturbed getMarketState returns for a market object
LedgerState(obj) == MarketStateOf(obj, obj.active_buckets, LedgerDistribution(obj))

\* C18 as claimed: calculateTotalPnL returns one PositionPnL per open
\* position in input order; each unrealizedPnL is the zero-slippage sell
\* payout of that position minus its costBasis; totalPnL is the realizedPnL
\* of the trade list plus the sum of the unrealizedPnL; and the call fails if
\* a read of any position's state failed.
C18_TotalPnL ==
    (pc = "done" /\ req.op = "total") =>
        /\ result.kind = "total" =>
              /\ Len(result.positions) = Len(req.openPositions)
              /\ \A n \in DOMAIN req.openPositions :
                    LET open == req.openPositions[n]
                        pnl == result.positions[n]
                    IN  /\ pnl.rangeStart = open.rangeStart
                        /\ pnl.rangeEnd = open.rangeEnd
                        /\ pnl.shares = open.shares
                        /\ pnl.costBasis = open.costBasis
                        /\ pnl.unrealizedPnL = pnl.currentValue - open.costBasis
                        /\ failedReads = 0 =>
                              pnl.currentValue =
                                 calculatePayoutForShares(LedgerState(ledger),
                                    open.rangeStart, open.rangeEnd, open.shares).v
              /\ result.realizedPnL = calculateRealizedPnL(req.trades).realizedPnL
              /\ result.unrealizedPnL =
                    Reduce([n \in DOMAIN result.positions |->
                              result.positions[n].unrealizedPnL])
              /\ result.totalPnL = result.realizedPnL + result.unrealizedPnL
        /\ failedReads > 0 => result.kind = "error"

\* C19: every getBuyQuote, getSellQuote and calculatePositionPnL call issues
\* exactly one read of the market object and the state it prices is the one
\* of the ledger as it is now, whatever the ledger was during earlier calls;
\* nothing of a call is kept after it returned; calculateRealizedPnL issues
\* no read; and no step of a call changes the ledger.
C19_FreshRead ==
    /\ [](/\ (req.op \in {"buy", "sell", "position"} /\ pc # "getObject") =>
                objectReads = 1
          /\ (state # NoState /\ failedReads = 0) => state = LedgerState(ledger)
          /\ req.op = "realized" => reads = 0
          /\ pc = "idle" =>
                /\ state = NoState /\ distribution = EmptyMap /\ activeBuckets = <<>>
                /\ positions = <<>> /\ reads = 0)
    /\ [][pc # "idle" => ledger' = ledger]_vars

\* a sell quote returned after one read of the market object and one read
\* per active bucket, for a ledger that holds shares
C19_Witness ==
    /\ pc = "done"
    /\ result.kind = "sell"
    /\ objectReads = 1
    /\ reads = 1 + Len(ledger.active_buckets)
    /\ state = LedgerState(ledger)
    /\ \E b \in DOMAIN state.distribution : state.distribution[b] > 0

\* the running call is inside calculateSharesForAmount, a cost, payout or
\* probability evaluation or the code of a facade that follows the state read
Pricing == pc \in {"solve", "search", "refine", "refineLoop", "quote", "payout", "position"}

\* C20: no step of calculateSharesForAmount, of the cost, payout and
\* probability evaluations or of the quote facades changes the MarketState
\* that getMarketState returned, so the probability of a buy quote is the
\* probability of the state as it was read.
C20_StateNotMutated ==
    /\ [][Pricing => state' = state]_vars
    /\ [](BuyReturned =>
            /\ state = MarketStateOf(ledger, activeBuckets, distribution)
            /\ result.probability =
                  calculateProbability(state, req.rangeMin, req.rangeMax))

\* a buy quote returned after the solver accepted a candidate for a state
\* that holds shares
C20_Witness ==
    /\ BuyReturned
    /\ result.shares > 0
    /\ Cardinality(evaluated) > 2
    /\ \E b \in DOMAIN state.distribution : state.distribution[b] > 0

\* calculateTotalPnL: the calculatePositionPnL calls that wait for an answer
\* of the state source
Outstanding ==
    Cardinality({n \in DOMAIN positions :
                    positions[n].pc \in {"getObject", "getDynamicField"}})

\* C21: during calculateTotalPnL the requests outstanding at the state
\* source stay below a bound that does not grow with the number of open
\* positions: a batch of more than one position never has a request of every
\* position outstanding at once.
C21_BoundedConcurrency ==
    (pc = "all" /\ Len(positions) > 1) => Outstanding < Len(positions)

\* C22: an access code is linked to at most one wallet address, and an
\* activateCode call that found the code already used is rejected with a 409
\* conflict.
C22_OneWalletPerCode ==
    /\ \A code \in DOMAIN waitlistModel :
          Cardinality(SeqToSet(waitlistModel[code].wallet_addresses)) <= 1
    /\ \A c \in ActivateCalls :
          (activations[c].pc \in {"save", "done"} /\ activations[c].found = "used") =>
              activations[c].error = "ConflictException"

\* C23: calculateSharesForAmount always terminates.  The binary search runs
\* at most MAX_ITERATIONS iterations, every iteration after which the search
\* goes on strictly shrinks the interval [low, high], the refinement pass
\* evaluates at most REFINE_WINDOW / REFINE_STEP = 100 candidates (those at
\* delta = 1, 101, ..., 9901), and every call that started reaches its
\* return, also when every cost evaluation fails.
C23_Terminates ==
    /\ [](i <= MAX_ITERATIONS)
    /\ [][(pc = "search" /\ pc' = "search") => high' - low' < high - low]_vars
    /\ [](pc = "refineLoop" =>
             /\ (delta - 1) % REFINE_STEP = 0
             /\ delta <= REFINE_WINDOW + 1)
    /\ [][(pc = "refineLoop" /\ evaluated' # evaluated) =>
             /\ delta + REFINE_STEP <= REFINE_WINDOW + 1
             /\ Cardinality(evaluated') = Cardinality(evaluated) + 1]_vars
    /\ [](Cardinality(evaluated) <= i + 1 + REFINE_WINDOW \div REFINE_STEP)
    /\ (pc = "solve" ~> pc = "done")

\* the refinement pass ran through all of its 100 candidates after a binary
\* search of 20 iterations, and the call returned
C23_Witness ==
    /\ pc = "done"
    /\ result.kind = "solved"
    /\ delta = REFINE_WINDOW + 1
    /\ Cardinality(evaluated) = i + REFINE_WINDOW \div REFINE_STEP

\* the result of the binary search while the refinement pass runs: the last
\* accepted midpoint, after which low = mid + 1 was not changed again
SearchResult == low - 1

\* C24: the refinement pass runs only when the result of the binary search
\* has utilization in [95%, 99%), and it raises the share count by at most
\* REFINE_WINDOW = 10,000 shares in total over that result, the cost staying
\* within the amount and the shares within maxSharesPerBucket.
C24_RefinementWindow ==
    pc = "refineLoop" =>
        /\ delta = 1 =>
              /\ FGe(FDiv(Num(bestCost), Num(req.amount)), Fin((95 * FRAC) \div 100))
              /\ FLt(FDiv(Num(bestCost), Num(req.amount)), Fin((99 * FRAC) \div 100))
        /\ bestShares - SearchResult <= REFINE_WINDOW
        /\ bestCost <= req.amount
        /\ bestShares <= view.maxSharesPerBucket

\* the evaluation of calculateCostForShares at this share count throws
EvaluationFails(shares) == ~CurveCost(view.curve, shares).ok

\* C25: a cost evaluation that fails is treated as too expensive.  The
\* failing midpoint is not accepted and the search goes on below it with
\* high = mid - 1; a failing refinement candidate is not accepted and ends
\* the refinement; neither makes the call throw; the best candidate is never
\* one whose evaluation fails; and when every evaluation of the call failed
\* the result is {shares: 0, cost: 0}.
C25_FailureIsTooExpensive ==
    /\ [][(/\ pc = "search" /\ i < MAX_ITERATIONS /\ low <= high
           /\ EvaluationFails(BigIntDiv(low + high, 2))) =>
             /\ high' = BigIntDiv(low + high, 2) - 1
             /\ low' = low
             /\ bestShares' = bestShares /\ bestCost' = bestCost
             /\ pc' = "search" /\ result' = result]_vars
    /\ [][(/\ pc = "refineLoop" /\ evaluated' # evaluated
           /\ EvaluationFails(bestShares + delta)) =>
             /\ bestShares' = bestShares /\ bestCost' = bestCost
             /\ pc' = "quote" /\ result' = result]_vars
    /\ [](bestShares > 0 => ~EvaluationFails(bestShares))
    /\ [][(pc \in {"search", "refine", "refineLoop"}) => (result' = result)]_vars
    /\ []((/\ pc = "done" /\ evaluated # {}
           /\ \A shares \in evaluated : EvaluationFails(shares)) =>
             /\ result.kind = "solved" /\ result.shares = 0 /\ result.cost = 0)

\* a call returned 9 shares after evaluations above 9 shares had failed
C25_Witness ==
    /\ pc = "done"
    /\ result.kind = "solved"
    /\ result.shares = 9
    /\ \E shares \in evaluated : EvaluationFails(shares)
    /\ \E shares \in evaluated : ~EvaluationFails(shares)

\* C26: for a cost function that is non-decreasing in shares (that of every
\* view is), amount >= 1 and maxSharesPerBucket >= 1, calculateSharesForAmount
\* returns; it returns {shares: 0, cost: 0} if and only if one share is not
\* affordable (its cost exceeds the amount or its evaluation fails); and the
\* cost it returns with shares >= 1 is the cost of these shares.
C26_ZeroIffUnaffordable ==
    (pc = "done" /\ req.op = "solve" /\ req.amount >= 1
       /\ view.maxSharesPerBucket >= 1) =>
        /\ result.kind = "solved"
        /\ (result.shares = 0 /\ result.cost = 0) <=>
               ~Affordable(CurveCost(view.curve, 1), req.amount)
        /\ Affordable(CurveCost(view.curve, 1), req.amount) => result.shares >= 1
        /\ result.shares >= 1 =>
               CurveCost(view.curve, result.shares) = [ok |-> TRUE, v |-> result.cost]

\* the bucket span of the range of the running call
RangeSpan == mapRangeToBuckets(req.rangeMin, req.rangeMax, state.bucketWidth, state.minValue)

\* the share counts after the trade that adds the full share count to every
\* bucket of the span: a function on the active buckets and the span
SharesAfterBuying(shares) ==
    [b \in SeqToSet(state.activeBuckets) \cup (RangeSpan.start .. RangeSpan.end) |->
        SharesOf(state, b) + (IF InRange(b, RangeSpan) THEN shares ELSE 0)]

\* the sum of exp(q[b] / alpha) over the buckets of q
ExpSum(q) ==
    SumOver(DOMAIN q, [b \in DOMAIN q |-> MathExp(FDiv(Num(q[b]), Num(state.alpha)))])

\* the share counts of the active buckets before the trade
SharesBefore == [b \in SeqToSet(state.activeBuckets) |-> SharesOf(state, b)]

\* the share counts the cost is probed with
CostProbes == {1, SmallAmount, HeldShares}

\* C27: calculateCostForShares prices the trade that adds the full share
\* count to every bucket of [start, end]: its result is the rounded
\* alpha * (ln(finalSum) - ln(initialSum)), initialSum being the sum of
\* exp(q_i / alpha) over the active buckets and finalSum the sum over the
\* active buckets and all buckets of the span after the trade; it fails
\* exactly when this value is not finite.
C27_CostFormula ==
    (pc = "solve" /\ req.amount = SmallAmount /\ req.slippagePercent = Fin(0)) =>
        \A shares \in CostProbes :
            CostOf(shares) =
                BigIntOf(MathRound(FMul(Num(state.alpha),
                                        FSub(MathLog(ExpSum(SharesAfterBuying(shares))),
                                             MathLog(ExpSum(SharesBefore))))))

\* a range of two buckets, one of them not active, on a market whose active
\* bucket holds shares: the cost of the trade is positive
C27_Witness ==
    /\ pc = "solve" /\ req.amount = SmallAmount /\ req.slippagePercent = Fin(0)
    /\ RangeSpan.end > RangeSpan.start
    /\ \E b \in RangeSpan.start .. RangeSpan.end : b \notin SeqToSet(state.activeBuckets)
    /\ \E b \in SeqToSet(state.activeBuckets) : InRange(b, RangeSpan) /\ SharesOf(state, b) > 0
    /\ CostOf(HeldShares).ok /\ CostOf(HeldShares).v > 0

\* C29: selling nothing pays nothing.  On every state with alpha > 0 and an
\* active bucket that getMarketState returned from reads that all answered,
\* and for every range, calculatePayoutForShares with shares = 0 returns 0,
\* and the PositionPnL of a position of 0 shares has currentValue 0.
C29_ZeroSharesPayZero ==
    (req.op \in {"sell", "position"} /\ req.amount = 0 /\ failedReads = 0
       /\ ValidRange /\ state.alpha > 0 /\ state.activeBuckets # <<>>) =>
        /\ pc = "payout" =>
              calculatePayoutForShares(state, req.rangeMin, req.rangeMax, 0)
                  = [ok |-> TRUE, v |-> 0]
        /\ (pc = "done" /\ state # NoState) =>
              /\ result.kind = req.op
              /\ result.payout = 0
              /\ result.pnl.currentValue = 0

\* the distribution getMarketState builds when every per-bucket read sees
\* the share table t
SnapshotOf(t) ==
    [b \in SeqToSet(state.activeBuckets) \cap DOMAIN t |-> t[b]]

\* C28: the MarketState getMarketState returns, all reads having answered,
\* is a consistent snapshot: its per-bucket share counts are those of the
\* share table the ledger held at one instant between the call and its
\* return, and its activeBuckets those of the ledger.
C28_ConsistentSnapshot ==
    (state # NoState /\ failedReads = 0) =>
        /\ state.activeBuckets = ledger.active_buckets
        /\ \E t \in tablesSeen \cup {ledger.table} :
               state.distribution = SnapshotOf(t)

\* C30: the sponsorship rate limit under concurrency.  Once the recorded gas
\* usage of a user has reached the daily limit per user, or the recorded
\* usage of all users the global daily budget, no sponsorTransaction call of
\* that user has its transaction executed, whatever the interleaving of the
\* calls.
C30_RateLimit ==
    [][\A c \in SponsorCalls :
          (/\ sponsorCalls[c].pc = "executeTransactionBlock"
           /\ sponsorCalls'[c].pc = "trackSponsorshipUsage") =>
              /\ getUserDailyUsage(sponsorCalls[c].userAddress) < DailyLimitPerUser
              /\ GlobalDailyUsage < GlobalDailyBudget]_vars

====
